---- MODULE Spec2Model ----
(***************************************************************************)
(* Lifecycle of meeting jobs in the gemini-meet dashboard.                 *)
(*                                                                         *)
(* The dashboard's route handlers are async functions: every `await` on    *)
(* the database or on the Docker runtime is a point where another request  *)
(* handler may run.  Each handler is therefore modelled as a small process *)
(* whose steps are the code between two awaits that touch shared state     *)
(* (the meetings table, the containers of the runtime).                    *)
(***************************************************************************)
EXTENDS Naturals, Integers, FiniteSets, Sequences, TLC

(***************************************************************************)
(* Bounds of the model.                                                    *)
(***************************************************************************)
\* number of meeting ids (uuidv4 values) that spawn can hand out
MaxJobs == 1
\* the wall clock (new Date()) runs from 1 to MaxTime
MaxTime == 2

Jobs == 1..MaxJobs
\* session users (session.user.id)
Users == {"alice", "bob"}
\* concurrent invocations of GET /api/meetings (the dashboard polls it)
Pollers == {"p1", "p2"}
\* invocations of POST /api/meetings/[id]/stop
Stoppers == {"s1"}
\* exit codes a worker process may end with (State.ExitCode)
ExitCodes == {0, 1}

\* SQL NULL of a nullable column
NULL == 0
\* no row with this primary key
NoRow == [status |-> "absent"]

Terminal == {"completed", "failed", "stopped"}

VARIABLES
    db,            \* the meetings table: meeting id -> row or NoRow
    cont,          \* the Docker runtime: container of each spawn
    now,           \* the wall clock
    sp,            \* POST /api/meetings in flight, per generated meetingId
    poll,          \* GET /api/meetings in flight, per invocation
    stop           \* POST /api/meetings/[id]/stop in flight, per invocation

\* The materialization of a spawn's configuration is followed in detail for
\* one request, with state of its own (see ConfigSpec).
VARIABLES
    mcpConfigs,    \* the mcp_configs table: binding id -> row or NoRow
    sandbox,       \* the request's directory under <tmp>/gemini_meetings
    docker,        \* the request's container in the runtime
    meeting,       \* the request's row of the meetings table, or NoRow
    post           \* the request's handler

configVars == <<mcpConfigs, sandbox, docker, meeting, post>>

\* The log client (DatadogClient) and the extraction of a meeting's transcript
\* and tool usage from its logs have state of their own (see LogSpec).
VARIABLES
    datadog,       \* the client: its credentials, once constructed
    fetch,         \* fetchLogs in flight
    details        \* getMeetingDetails in flight

logVars == <<datadog, fetch, details>>

\* The dashboard page of one browser has state of its own (see DashSpec).
VARIABLES
    dash           \* the state of the MeetingDashboard component

\* what the lifecycle handlers below leave alone
elsewhere == <<configVars, logVars, dash>>

lifecycleVars == <<db, cont, now, sp, poll, stop>>

vars == <<lifecycleVars, elsewhere>>

(***************************************************************************)
(* The meetings table (db/schema.ts).  The container of the spawn that     *)
(* generated meeting id j is named j as well: container.id is opaque and   *)
(* each spawn creates at most one container.                               *)
(***************************************************************************)
meetings(status, containerId, createdBy, endedAt) ==
    [status |-> status, containerId |-> containerId,
     createdBy |-> createdBy, endedAt |-> endedAt]

Rows == {j \in DOMAIN db : db[j] # NoRow}

\* cont[j].state: the runtime has never heard of the container ("none"), it
\* exists but was never started ("created"), it runs ("running"), it has
\* exited ("exited"), or it was removed by hand ("removed")

\* The locals of a handler that is not running have their initial values.
\* userId is read by the two selects only, so it is not kept; isRunning is
\* false exactly at pc = "inspected".
IdlePoll == [pc |-> "idle", todo |-> {}, cur |-> NULL,
             caught |-> FALSE, exitCode |-> 0]
\* A stop handler that has returned keeps its last request and response:
\* `id`, the response `res`, and wasRunning, which records (for the
\* properties only, the handler does not read the status) whether the meeting
\* was recorded as running when the stop was requested.
IdleStop == [pc |-> "idle", id |-> NULL, containerId |-> NULL,
             wasRunning |-> FALSE, res |-> "none"]
IdleSpawn == [pc |-> "none", user |-> "alice", res |-> "none"]

\* ids of rows of mcp_configs (uuid, defaultRandom)
BindingIds == {"b1", "b2"}
\* binding names, as the sequences of their characters
Names == {<<"A", " ", "b">>, <<"a", "-", "b">>, <<"a", " ", " ", "b">>, <<"c">>}
\* environment maps (jsonb objects), as sets of <<key, value>> pairs
Envs == {{}, {<<"API_KEY", "v">>}, {<<"API_KEY", "v">>, <<"REGION", "">>}}

\* const mcpServers: Record<string, any> = {}
NoServers == [k \in {} |-> {}]
\* the directory of a request that has not come to it yet; file is the set of
\* the contents of config_meet.json: empty while the file does not exist
NoSandbox == [configDir |-> FALSE, dataDir |-> FALSE, file |-> {}]
\* the handler's locals (the session's user, body.mcpConfigIds, the document
\* built) and its response; none of the locals outlives the request
IdlePost == [pc |-> "idle", userId |-> "alice", mcpConfigIds |-> {},
             mcpServers |-> NoServers, res |-> "none"]

\* lib/datadog is not loaded yet
NoClient == [constructed |-> FALSE, apiKey |-> "", appKey |-> ""]
\* fetchLogs: requests counts the calls of fetch(url, ...); logs is the set of
\* the strings returned (empty until it returns); raised: it threw instead
IdleFetch == [pc |-> "idle", requests |-> 0, logs |-> {}, raised |-> FALSE]
\* getMeetingDetails: the lines still to be looked at and the two results
IdleDetails == [pc |-> "idle", lines |-> <<>>, transcript |-> <<>>,
                toolUsage |-> [name \in {} |-> 0]]

\* number of meetings the list of the page may hold
MaxMeetings == 11
\* const ITEMS_PER_PAGE = 10
ITEMS_PER_PAGE == 10
\* the values of meetings.status the page filters by
Statuses == {"running", "completed", "stopped", "failed"}
\* the component when it is mounted.  meetings is the list the last poll
\* answered, kept as the number of its rows of each status: the page logic
\* reads the length of the filtered list only, and the sort keeps it
NewDashboard ==
    [meetings |-> [status \in Statuses |-> 0], loading |-> TRUE,
     currentPage |-> 1, sortOrder |-> "desc", statusFilter |-> "all"]

Init ==
    /\ db = [j \in Jobs |-> NoRow]
    /\ cont = [j \in Jobs |-> [state |-> "none", exitCode |-> 0]]
    /\ now = 1
    /\ sp = [j \in Jobs |-> IdleSpawn]
    /\ poll = [h \in Pollers |-> IdlePoll]
    /\ stop = [s \in Stoppers |-> IdleStop]
    /\ mcpConfigs = [b \in BindingIds |-> NoRow]
    /\ sandbox = NoSandbox
    /\ docker = "none"
    /\ meeting = NoRow
    /\ post = IdlePost
    /\ datadog = NoClient
    /\ fetch = IdleFetch
    /\ details = IdleDetails
    /\ dash = NewDashboard

\* The lifecycle handlers neither read nor write the state of the other
\* parts (they leave `elsewhere` unchanged), so the specifications of the
\* lifecycle alone do not carry it: each of its variables is NotFollowed
NotFollowed == "not followed"

LifecycleInit ==
    /\ db = [j \in Jobs |-> NoRow]
    /\ cont = [j \in Jobs |-> [state |-> "none", exitCode |-> 0]]
    /\ now = 1
    /\ sp = [j \in Jobs |-> IdleSpawn]
    /\ poll = [h \in Pollers |-> IdlePoll]
    /\ stop = [s \in Stoppers |-> IdleStop]
    /\ mcpConfigs = NotFollowed
    /\ sandbox = NotFollowed
    /\ docker = NotFollowed
    /\ meeting = NotFollowed
    /\ post = NotFollowed
    /\ datadog = NotFollowed
    /\ fetch = NotFollowed
    /\ details = NotFollowed
    /\ dash = NotFollowed

(***************************************************************************)
(* The Docker runtime and the worker inside the container.                 *)
(***************************************************************************)
\* the worker process ends by itself with some exit code
ContainerExit(j, code) ==
    /\ cont[j].state = "running"
    /\ cont' = [cont EXCEPT ![j] = [state |-> "exited", exitCode |-> code]]
    /\ UNCHANGED <<db, now, sp, poll, stop>>
    /\ UNCHANGED elsewhere

\* somebody removes the exited container by hand (docker rm)
ContainerRemove(j) ==
    /\ cont[j].state = "exited"
    /\ cont' = [cont EXCEPT ![j] = [state |-> "removed", exitCode |-> 0]]
    /\ UNCHANGED <<db, now, sp, poll, stop>>
    /\ UNCHANGED elsewhere

\* container.inspect(): answers for a container the runtime knows
InspectAnswers(j) == cont[j].state \in {"created", "running", "exited"}

\* The clock is read only by `new Date()` when a meeting is finished, so a
\* tick matters only once the current time has been written somewhere.
Tick ==
    /\ now < MaxTime
    /\ \E j \in Rows : db[j].endedAt = now
    /\ now' = now + 1
    /\ UNCHANGED <<db, cont, sp, poll, stop>>
    /\ UNCHANGED elsewhere

(***************************************************************************)
(* POST /api/meetings: spawn.                                              *)
(***************************************************************************)
\* uuidv4(): an id no earlier spawn has used (the least one, the ids being
\* interchangeable)
FreshId(j) == sp[j].pc = "none" /\ \A i \in DOMAIN sp : i < j => sp[i].pc # "none"

\* NextResponse.json({ success: true, meetingId })
SpawnSuccess == "success"
\* catch: NextResponse.json({ error: 'Failed to spawn agent' }, { status: 500 })
SpawnError == "Failed to spawn agent"

\* the users being interchangeable, the first spawn is alice's
FirstUser(j, u) == j = 1 => u = "alice"

InsertMeeting(table, id, row) == [table EXCEPT ![id] = row]

\* the session and the url are checked and the configuration is written
\* (nothing shared changes); then await docker.createContainer(containerConfig)
SpawnCreate(j, u) ==
    /\ FreshId(j)
    /\ FirstUser(j, u)
    /\ \/ /\ cont' = [cont EXCEPT ![j] = [state |-> "created", exitCode |-> 0]]
          /\ sp' = [sp EXCEPT ![j] = [pc |-> "created", user |-> u, res |-> "none"]]
       \/ /\ sp' = [sp EXCEPT ![j] = [IdleSpawn EXCEPT !.pc = "done", !.res = SpawnError]]
          /\ UNCHANGED cont
    /\ UNCHANGED <<db, now, poll, stop>>
    /\ UNCHANGED elsewhere

\* mutant: a failure of start() is swallowed and the spawn goes on
SpawnStart_SwallowsError(j) ==
    /\ sp[j].pc = "created"
    /\ sp' = [sp EXCEPT ![j].pc = "started"]
    /\ \/ cont' = [cont EXCEPT ![j] = [state |-> "running", exitCode |-> 0]]
       \/ UNCHANGED cont
    /\ UNCHANGED <<db, now, poll, stop>>
    /\ UNCHANGED elsewhere

\* await container.start()
SpawnStart(j) ==
    /\ sp[j].pc = "created"
    /\ \/ /\ cont' = [cont EXCEPT ![j] = [state |-> "running", exitCode |-> 0]]
          /\ sp' = [sp EXCEPT ![j].pc = "started"]
       \/ /\ sp' = [sp EXCEPT ![j] = [IdleSpawn EXCEPT !.pc = "done", !.res = SpawnError]]
          /\ UNCHANGED cont
    /\ UNCHANGED <<db, now, poll, stop>>
    /\ UNCHANGED elsewhere

\* await db.insert(meetings).values({...}); then the response
SpawnInsert(j) ==
    /\ sp[j].pc = "started"
    /\ \/ /\ db' = InsertMeeting(db, j, meetings("running", j, sp[j].user, NULL))
          /\ sp' = [sp EXCEPT ![j] = [IdleSpawn EXCEPT !.pc = "done", !.res = SpawnSuccess]]
       \/ /\ sp' = [sp EXCEPT ![j] = [IdleSpawn EXCEPT !.pc = "done", !.res = SpawnError]]
          /\ UNCHANGED db
    /\ UNCHANGED <<cont, now, poll, stop>>
    /\ UNCHANGED elsewhere

(***************************************************************************)
(* GET /api/meetings: the list poll, which reconciles the caller's running *)
(* meetings with the runtime before it lists them.                         *)
(***************************************************************************)
\* mutant: the select lacks the status filter
RunningMeetings_AnyStatus(u) == {j \in Rows : db[j].createdBy = u}

\* select().from(meetings).where(createdBy = userId and status = 'running')
RunningMeetings(u) ==
    {j \in Rows : db[j].createdBy = u /\ db[j].status = "running"}

\* mutant: the exit code is not looked at
FinalStatus_IgnoresExitCode(exitCode) == "completed"

\* mutant: a crashed worker is taken to be restarting
FinalStatus_KeepsCrashedRunning(exitCode) ==
    IF exitCode = 0 THEN "completed" ELSE "running"

\* let status = 'stopped'; if (exitCode === 0) status = 'completed';
\* else status = 'failed';
FinalStatus(exitCode) == IF exitCode = 0 THEN "completed" ELSE "failed"

\* mutant: the update sets the end timestamp and leaves the status out
FinishMeeting_OnlyEndedAt(row, status, t) ==
    IF row = NoRow THEN row ELSE [row EXCEPT !.endedAt = t]

\* update(meetings).set({ status, endedAt: new Date() }) where id = meeting.id
FinishMeeting(row, status, t) ==
    IF row = NoRow THEN row ELSE [row EXCEPT !.status = status, !.endedAt = t]

\* the invocations being interchangeable, a new one takes the first free
\* handler
FreePoller(h) ==
    poll[h].pc = "idle" /\ (h = "p2" => poll["p1"].pc # "idle")

PollSelect(h, u) ==
    /\ FreePoller(h)
    /\ poll' = [poll EXCEPT ![h] =
                   [IdlePoll EXCEPT !.pc = "loop", !.todo = RunningMeetings(u)]]
    /\ UNCHANGED <<db, cont, now, sp, stop>>
    /\ UNCHANGED elsewhere

\* one turn of the loop up to the end of `await container.inspect()`; the
\* rows come back in no particular order.  isRunning = false and exitCode = 0
\* unless the inspection answers.  A container found running ends the turn
\* (no await follows); otherwise the turn goes on to the update.
\* container_id is never updated, so the snapshot's value is the row's.
PollInspect(h, j) ==
    /\ poll[h].pc = "loop"
    /\ j \in poll[h].todo
    /\ \/ /\ db[j].containerId # NULL
          /\ InspectAnswers(db[j].containerId)
          /\ LET c == cont[db[j].containerId]
                 running == c.state = "running"
             IN poll' = [poll EXCEPT ![h].todo = @ \ {j},
                                     ![h].cur = IF running THEN NULL ELSE j,
                                     ![h].exitCode = c.exitCode,
                                     ![h].pc = IF running THEN "loop" ELSE "inspected"]
       \/ \* inspect throws: the container is gone or the runtime unreachable
          /\ poll' = [poll EXCEPT ![h].todo = @ \ {j},
                                  ![h].cur = j,
                                  ![h].caught = TRUE,
                                  ![h].pc = "inspected"]
    /\ UNCHANGED <<db, cont, now, sp, stop>>
    /\ UNCHANGED elsewhere

\* mutant: the update has no where clause
PollUpdate_EveryRow(h) ==
    /\ poll[h].pc = "inspected"
    /\ db' = [j \in DOMAIN db |->
                 FinishMeeting(db[j], FinalStatus(poll[h].exitCode), now)]
    /\ poll' = [poll EXCEPT ![h].pc = "loop", ![h].cur = NULL,
                            ![h].caught = FALSE, ![h].exitCode = 0]
    /\ UNCHANGED <<cont, now, sp, stop>>
    /\ UNCHANGED elsewhere

\* if (!isRunning) { ... await db.update(meetings) ... }
PollUpdate(h) ==
    /\ poll[h].pc = "inspected"
    /\ db' = [db EXCEPT ![poll[h].cur] =
                 FinishMeeting(@, FinalStatus(poll[h].exitCode), now)]
    /\ poll' = [poll EXCEPT ![h].pc = "loop", ![h].cur = NULL,
                            ![h].caught = FALSE, ![h].exitCode = 0]
    /\ UNCHANGED <<cont, now, sp, stop>>
    /\ UNCHANGED elsewhere

\* the loop is over: the final select and the response
PollReturn(h) ==
    /\ poll[h].pc = "loop"
    /\ poll[h].todo = {}
    /\ poll' = [poll EXCEPT ![h] = IdlePoll]
    /\ UNCHANGED <<db, cont, now, sp, stop>>
    /\ UNCHANGED elsewhere

\* a query of the poll throws: catch, 500 'Failed to fetch meetings'
PollFail(h) ==
    /\ poll[h].pc # "idle"
    /\ poll' = [poll EXCEPT ![h] = IdlePoll]
    /\ UNCHANGED <<db, cont, now, sp, stop>>
    /\ UNCHANGED elsewhere

(***************************************************************************)
(* POST /api/meetings/[id]/stop.                                           *)
(***************************************************************************)
\* mutant: the stop deletes the row instead of updating it
StopMeeting_Deletes(row) == NoRow

\* UPDATE meetings SET status = 'stopped' WHERE id = $1
StopMeeting(row) ==
    IF row = NoRow THEN row ELSE [row EXCEPT !.status = "stopped"]

\* the session cookie of a request: the session of a user, a value that is no
\* session, or none
Cookies == Users \cup {"forged", "none"}

\* middleware.ts: a request without the cookie is sent to the login page; the
\* value of the cookie is not looked at
Middleware(cookie) == cookie # "none"

\* SELECT container_id FROM meetings WHERE id = $1; no row: 404
StopSelect(s, j) ==
    /\ stop[s].pc = "idle"
    /\ stop' = [stop EXCEPT ![s] =
                   IF db[j] = NoRow
                   THEN [IdleStop EXCEPT !.id = j, !.res = "Meeting not found"]
                   ELSE [IdleStop EXCEPT !.pc = "selected", !.id = j,
                                         !.containerId = db[j].containerId,
                                         !.wasRunning = (db[j].status = "running")]]
    /\ UNCHANGED <<db, cont, now, sp, poll>>
    /\ UNCHANGED elsewhere

\* a stop request with its cookie: the middleware lets it through to the
\* handler, which does not call auth.api.getSession and never reads the cookie
StopRequest(s, j, cookie) ==
    /\ Middleware(cookie)
    /\ StopSelect(s, j)

\* mutant: a throw of container.stop() reaches the outer catch
StopContainer_Rethrows(s) ==
    /\ stop[s].pc = "selected"
    /\ LET c == stop[s].containerId
       IN \/ /\ c # NULL
             /\ cont[c].state = "running"
             /\ \E code \in ExitCodes :
                   cont' = [cont EXCEPT ![c] = [state |-> "exited", exitCode |-> code]]
             /\ stop' = [stop EXCEPT ![s].pc = "stopping"]
          \/ /\ UNCHANGED cont
             /\ stop' = [stop EXCEPT ![s].pc = "idle",
                                     ![s].res = "Failed to stop agent"]
    /\ UNCHANGED <<db, now, sp, poll>>
    /\ UNCHANGED elsewhere

\* if (containerId) { try { await container.stop() } catch { warn } }
\* stop() ends a running container with the exit code of the killed worker;
\* for any other container, or with the runtime unreachable, it throws.
StopContainer(s) ==
    /\ stop[s].pc = "selected"
    /\ LET c == stop[s].containerId
       IN \/ /\ c # NULL
             /\ cont[c].state = "running"
             /\ \E code \in ExitCodes :
                   cont' = [cont EXCEPT ![c] = [state |-> "exited", exitCode |-> code]]
          \/ UNCHANGED cont
    /\ stop' = [stop EXCEPT ![s].pc = "stopping"]
    /\ UNCHANGED <<db, now, sp, poll>>
    /\ UNCHANGED elsewhere

\* await query("UPDATE ..."); NextResponse.json({ success: true })
StopUpdate(s) ==
    /\ stop[s].pc = "stopping"
    /\ db' = [db EXCEPT ![stop[s].id] = StopMeeting(@)]
    /\ stop' = [stop EXCEPT ![s].pc = "idle", ![s].res = "success"]
    /\ UNCHANGED <<cont, now, sp, poll>>
    /\ UNCHANGED elsewhere

\* the update query throws: catch, 500 'Failed to stop agent'
StopFail(s) ==
    /\ stop[s].pc = "stopping"
    /\ stop' = [stop EXCEPT ![s].pc = "idle", ![s].res = "Failed to stop agent"]
    /\ UNCHANGED <<db, cont, now, sp, poll>>
    /\ UNCHANGED elsewhere

(***************************************************************************)
(* POST /api/meetings/[id]/transcript: the worker reports its summary.     *)
(***************************************************************************)
\* mutant: the report overwrites the config column as well
ReportMeeting_ResetsConfig(row) ==
    IF row = NoRow THEN row
    ELSE [row EXCEPT !.status = "stopped", !.config = NoServers]

\* UPDATE meetings SET summary = $1, status = 'stopped' WHERE id = $2
\* (the handler's earlier version also stores the transcript and writes the
\* same status; the texts stored are read by no handler and are left out)
ReportMeeting(row) ==
    IF row = NoRow THEN row ELSE [row EXCEPT !.status = "stopped"]

\* the worker of job j has been started; its request arrives at some time
Report(j) ==
    /\ cont[j].state \in {"running", "exited", "removed"}
    /\ db' = [db EXCEPT ![j] = ReportMeeting(@)]
    /\ UNCHANGED <<cont, now, sp, poll, stop>>
    /\ UNCHANGED elsewhere

Next ==
    \/ \E j \in Jobs, code \in ExitCodes : ContainerExit(j, code)
    \/ \E j \in Jobs : ContainerRemove(j)
    \/ Tick
    \/ \E j \in Jobs, u \in Users : SpawnCreate(j, u)
    \/ \E j \in Jobs : SpawnStart(j)
    \/ \E j \in Jobs : SpawnInsert(j)
    \/ \E h \in Pollers, u \in Users : PollSelect(h, u)
    \/ \E h \in Pollers, j \in Jobs : PollInspect(h, j)
    \/ \E h \in Pollers : PollUpdate(h)
    \/ \E h \in Pollers : PollReturn(h)
    \/ \E h \in Pollers : PollFail(h)
    \/ \E s \in Stoppers, j \in Jobs : StopSelect(s, j)
    \/ \E s \in Stoppers : StopContainer(s)
    \/ \E s \in Stoppers : StopUpdate(s)
    \/ \E s \in Stoppers : StopFail(s)
    \/ \E j \in Jobs : Report(j)

Spec == LifecycleInit /\ [][Next]_vars

(***************************************************************************)
(* The lifecycle under the scheduling the dashboard gives it.  The page     *)
(* calls GET /api/meetings when it is mounted and then every 5 seconds     *)
(* (setInterval(fetchMeetings, 5000)), so the list poll of a user whose    *)
(* page is open is invoked again and again; an await of a handler that has *)
(* been invoked resolves, and a query does not throw every time it is      *)
(* made.  Here a poll has answered by the time the next one is made, so    *)
(* one invocation is in flight at a time.                                  *)
(***************************************************************************)
LivePollers == {"p1"}

LiveNext ==
    \/ \E j \in Jobs, code \in ExitCodes : ContainerExit(j, code)
    \/ \E j \in Jobs : ContainerRemove(j)
    \/ Tick
    \/ \E j \in Jobs, u \in Users : SpawnCreate(j, u)
    \/ \E j \in Jobs : SpawnStart(j)
    \/ \E j \in Jobs : SpawnInsert(j)
    \/ \E h \in LivePollers, u \in Users : PollSelect(h, u)
    \/ \E h \in LivePollers, j \in Jobs : PollInspect(h, j)
    \/ \E h \in LivePollers : PollUpdate(h)
    \/ \E h \in LivePollers : PollReturn(h)
    \/ \E h \in LivePollers : PollFail(h)
    \/ \E s \in Stoppers, j \in Jobs : StopSelect(s, j)
    \/ \E s \in Stoppers : StopContainer(s)
    \/ \E s \in Stoppers : StopUpdate(s)
    \/ \E s \in Stoppers : StopFail(s)
    \/ \E j \in Jobs : Report(j)

\* every user's page keeps polling; each await of a poll resolves, and its
\* queries succeed again and again
PollFairness ==
    /\ \A u \in Users : SF_vars(\E h \in LivePollers : PollSelect(h, u))
    /\ \A h \in LivePollers, j \in Jobs : SF_vars(PollInspect(h, j))
    /\ \A h \in LivePollers : SF_vars(PollUpdate(h))
    /\ \A h \in LivePollers : WF_vars(PollReturn(h))

LiveSpec == LifecycleInit /\ [][LiveNext]_vars /\ PollFairness

(***************************************************************************)
(* Two meetings side by side: the lifecycle with two meeting ids, which     *)
(* may belong to the same user or to two users, and one invocation of each *)
(* handler in flight at a time.                                            *)
(***************************************************************************)
FrameJobs == {1, 2}

FrameInit ==
    /\ db = [j \in FrameJobs |-> NoRow]
    /\ cont = [j \in FrameJobs |-> [state |-> "none", exitCode |-> 0]]
    /\ now = 1
    /\ sp = [j \in FrameJobs |-> IdleSpawn]
    /\ poll = [h \in Pollers |-> IdlePoll]
    /\ stop = [s \in Stoppers |-> IdleStop]
    /\ mcpConfigs = [b \in BindingIds |-> NoRow]
    /\ sandbox = NoSandbox
    /\ docker = "none"
    /\ meeting = NoRow
    /\ post = IdlePost
    /\ datadog = NoClient
    /\ fetch = IdleFetch
    /\ details = IdleDetails
    /\ dash = NewDashboard

FrameNext ==
    \/ \E j \in FrameJobs, code \in ExitCodes : ContainerExit(j, code)
    \/ \E j \in FrameJobs : ContainerRemove(j)
    \/ Tick
    \/ \E j \in FrameJobs, u \in Users : SpawnCreate(j, u)
    \/ \E j \in FrameJobs : SpawnStart(j)
    \/ \E j \in FrameJobs : SpawnInsert(j)
    \/ \E h \in LivePollers, u \in Users : PollSelect(h, u)
    \/ \E h \in LivePollers, j \in FrameJobs : PollInspect(h, j)
    \/ \E h \in LivePollers : PollUpdate(h)
    \/ \E h \in LivePollers : PollReturn(h)
    \/ \E h \in LivePollers : PollFail(h)
    \/ \E s \in Stoppers, j \in FrameJobs, cookie \in Cookies : StopRequest(s, j, cookie)
    \/ \E s \in Stoppers : StopContainer(s)
    \/ \E s \in Stoppers : StopUpdate(s)
    \/ \E s \in Stoppers : StopFail(s)
    \/ \E j \in FrameJobs : Report(j)

FrameSpec == FrameInit /\ [][FrameNext]_vars

(***************************************************************************)
(* The materialization of one spawn request (POST /api/meetings) in        *)
(* detail: the tool bindings of mcp_configs, the configuration document    *)
(* built from them, the sandbox directory, the container and the row.      *)
(***************************************************************************)
\* a row of mcp_configs; command and args are copied into the document as
\* they are and are left out
McpConfig(userId, name, env, enabled) ==
    [userId |-> userId, name |-> name, env |-> env, enabled |-> enabled]

\* POST /api/mcp-configs: INSERT INTO mcp_configs ... (name is required)
CreateBinding(b, u, name, env, enabled) ==
    /\ mcpConfigs[b] = NoRow
    /\ mcpConfigs' = [mcpConfigs EXCEPT ![b] = McpConfig(u, name, env, enabled)]
    /\ UNCHANGED <<sandbox, docker, meeting, post, lifecycleVars, logVars, dash>>

\* PUT /api/mcp-configs/[id]: update(mcpConfigs).set({ name, ..., env })
\* where id = id and userId = userId
EditBinding(b, u, name, env, enabled) ==
    /\ mcpConfigs[b] # NoRow
    /\ mcpConfigs[b].userId = u
    /\ mcpConfigs' = [mcpConfigs EXCEPT ![b] = McpConfig(u, name, env, enabled)]
    /\ UNCHANGED <<sandbox, docker, meeting, post, lifecycleVars, logVars, dash>>

\* DELETE /api/mcp-configs/[id]: delete(mcpConfigs) where id = id and
\* userId = userId
DeleteBinding(b, u) ==
    /\ mcpConfigs[b] # NoRow
    /\ mcpConfigs[b].userId = u
    /\ mcpConfigs' = [mcpConfigs EXCEPT ![b] = NoRow]
    /\ UNCHANGED <<sandbox, docker, meeting, post, lifecycleVars, logVars, dash>>

\* String.prototype.toLowerCase, on one character
LowerChar(c) == IF c = "A" THEN "a" ELSE c

\* name.toLowerCase()
ToLowerCase(s) == [i \in 1..Len(s) |-> LowerChar(s[i])]

\* /\s/
IsSpace(c) == c = " "

\* .replace(/\s+/g, '-'): every maximal run of white space becomes one '-'
RECURSIVE ReplaceSpaces(_)
ReplaceSpaces(s) ==
    IF s = <<>> THEN <<>>
    ELSE IF IsSpace(Head(s))
         THEN IF Len(s) > 1 /\ IsSpace(s[2])
              THEN ReplaceSpaces(Tail(s))
              ELSE <<"-">> \o ReplaceSpaces(Tail(s))
         ELSE <<Head(s)>> \o ReplaceSpaces(Tail(s))

\* config.name.toLowerCase().replace(/\s+/g, '-')
ServerName(name) == ReplaceSpaces(ToLowerCase(name))

\* mutant: every() in place of some()
HasEmptyEnvVars_Every(env) == env # {} /\ \A kv \in env : kv[2] = ""

\* Object.values(env).some(v => v === '')
HasEmptyEnvVars(env) == \E kv \in env : kv[2] = ""

\* { command, args, ...(Object.keys(env).length > 0 && { env }) }
ServerEntry(config) == IF config.env # {} THEN {<<"env", config.env>>} ELSE {}

\* mcpServers[key] = entry
SetServer(servers, key, entry) ==
    [k \in DOMAIN servers \cup {key} |-> IF k = key THEN entry ELSE servers[k]]

\* for (const config of result) { ... }: the rows in the order the select
\* returned them (it has no ORDER BY)
RECURSIVE McpServers(_, _)
McpServers(result, order) ==
    IF order = <<>> THEN NoServers
    ELSE LET n == Len(order)
             before == McpServers(result, SubSeq(order, 1, n - 1))
             config == result[order[n]]
         IN IF HasEmptyEnvVars(config.env)
            THEN before
            ELSE SetServer(before, ServerName(config.name), ServerEntry(config))

\* the orders in which the rows of a result may come back
Orders(S) ==
    {o \in [1..Cardinality(S) -> S] : \A i, k \in DOMAIN o : i # k => o[i] # o[k]}

\* select().from(mcpConfigs).where(inArray(id, mcpConfigIds) and userId = userId)
SelectConfigs(ids, u) ==
    LET found == {b \in ids : mcpConfigs[b] # NoRow /\ mcpConfigs[b].userId = u}
    IN [b \in found |-> mcpConfigs[b]]

\* the session and the url are checked, meetingId = uuidv4(), and the
\* bindings asked for are selected (an mcpConfigIds that is absent, no array or
\* empty selects nothing); the document is built from the rows
PostSelect(u, ids) ==
    /\ post.pc = "idle"
    /\ LET result == SelectConfigs(ids, u)
       IN \E order \in Orders(DOMAIN result) :
             post' = [post EXCEPT !.pc = "selected", !.userId = u,
                                  !.mcpConfigIds = ids,
                                  !.mcpServers = McpServers(result, order)]
    /\ UNCHANGED <<mcpConfigs, sandbox, docker, meeting, lifecycleVars, logVars, dash>>

\* catch: 500 'Failed to spawn agent'
PostError == [IdlePost EXCEPT !.pc = "done", !.res = SpawnError]

\* await fs.mkdir(configDir, { recursive: true })
PostMkdirConfig ==
    /\ post.pc = "selected"
    /\ \/ /\ sandbox' = [sandbox EXCEPT !.configDir = TRUE]
          /\ post' = [post EXCEPT !.pc = "configDir"]
       \/ /\ post' = PostError
          /\ UNCHANGED sandbox
    /\ UNCHANGED <<mcpConfigs, docker, meeting, lifecycleVars, logVars, dash>>

\* await fs.mkdir(dataDir, { recursive: true })
PostMkdirData ==
    /\ post.pc = "configDir"
    /\ \/ /\ sandbox' = [sandbox EXCEPT !.dataDir = TRUE]
          /\ post' = [post EXCEPT !.pc = "dataDir"]
       \/ /\ post' = PostError
          /\ UNCHANGED sandbox
    /\ UNCHANGED <<mcpConfigs, docker, meeting, lifecycleVars, logVars, dash>>

\* mutant: a failure to write the document is swallowed and the spawn goes on
PostWriteFile_IgnoresError ==
    /\ post.pc = "dataDir"
    /\ post' = [post EXCEPT !.pc = "written"]
    /\ \/ sandbox' = [sandbox EXCEPT !.file = {post.mcpServers}]
       \/ UNCHANGED sandbox
    /\ UNCHANGED <<mcpConfigs, docker, meeting, lifecycleVars, logVars, dash>>

\* await fs.writeFile(path.join(configDir, 'config_meet.json'),
\*                    JSON.stringify(config, null, 2))
PostWriteFile ==
    /\ post.pc = "dataDir"
    /\ \/ /\ sandbox' = [sandbox EXCEPT !.file = {post.mcpServers}]
          /\ post' = [post EXCEPT !.pc = "written"]
       \/ /\ post' = PostError
          /\ UNCHANGED sandbox
    /\ UNCHANGED <<mcpConfigs, docker, meeting, lifecycleVars, logVars, dash>>

\* const container = await docker.createContainer(containerConfig)
PostCreate ==
    /\ post.pc = "written"
    /\ \/ /\ docker' = "created"
          /\ post' = [post EXCEPT !.pc = "created"]
       \/ /\ post' = PostError
          /\ UNCHANGED docker
    /\ UNCHANGED <<mcpConfigs, sandbox, meeting, lifecycleVars, logVars, dash>>

\* await container.start()
PostStart ==
    /\ post.pc = "created"
    /\ \/ /\ docker' = "running"
          /\ post' = [post EXCEPT !.pc = "started"]
       \/ /\ post' = PostError
          /\ UNCHANGED docker
    /\ UNCHANGED <<mcpConfigs, sandbox, meeting, lifecycleVars, logVars, dash>>

\* the values of the insert: { id, url, status: 'running', containerId,
\* config, createdBy: userId }
NewMeeting(u, config) ==
    [status |-> "running", containerId |-> 1, createdBy |-> u,
     endedAt |-> NULL, config |-> config]

\* await db.insert(meetings).values({...}); then the response
PostInsert ==
    /\ post.pc = "started"
    /\ \/ /\ meeting' = NewMeeting(post.userId, post.mcpServers)
          /\ post' = [IdlePost EXCEPT !.pc = "done", !.res = SpawnSuccess]
       \/ /\ post' = PostError
          /\ UNCHANGED meeting
    /\ UNCHANGED <<mcpConfigs, sandbox, docker, lifecycleVars, logVars, dash>>

\* the later writes of the row: the update of a list poll, of a stop, and of
\* the worker's report
MeetingFinish(code) ==
    /\ meeting # NoRow
    /\ meeting.status = "running"
    /\ meeting' = FinishMeeting(meeting, FinalStatus(code), now)
    /\ UNCHANGED <<mcpConfigs, sandbox, docker, post, lifecycleVars, logVars, dash>>

MeetingStop ==
    /\ meeting # NoRow
    /\ meeting' = StopMeeting(meeting)
    /\ UNCHANGED <<mcpConfigs, sandbox, docker, post, lifecycleVars, logVars, dash>>

MeetingReport ==
    /\ meeting # NoRow
    /\ meeting' = ReportMeeting(meeting)
    /\ UNCHANGED <<mcpConfigs, sandbox, docker, post, lifecycleVars, logVars, dash>>

ConfigNext ==
    \/ \E b \in BindingIds, u \in Users, name \in Names, env \in Envs :
          CreateBinding(b, u, name, env, TRUE)
    \/ \E b \in BindingIds, u \in Users, name \in Names, env \in Envs :
          EditBinding(b, u, name, env, TRUE)
    \/ \E b \in BindingIds, u \in Users : DeleteBinding(b, u)
    \/ \E u \in Users, ids \in SUBSET BindingIds : PostSelect(u, ids)
    \/ PostMkdirConfig
    \/ PostMkdirData
    \/ PostWriteFile
    \/ PostCreate
    \/ PostStart
    \/ PostInsert
    \/ \E code \in ExitCodes : MeetingFinish(code)
    \/ MeetingStop
    \/ MeetingReport

ConfigSpec == Init /\ [][ConfigNext]_vars

(***************************************************************************)
(* The same request with bindings that may be disabled (enabled = false),  *)
(* over fewer names and environment maps.                                  *)
(***************************************************************************)
FlagNames == {<<"a", "-", "b">>, <<"c">>}
FlagEnvs == {{}, {<<"API_KEY", "v">>}}

FlagNext ==
    \/ \E b \in BindingIds, u \in Users, name \in FlagNames, env \in FlagEnvs,
          enabled \in BOOLEAN :
          CreateBinding(b, u, name, env, enabled)
    \/ \E b \in BindingIds, u \in Users, name \in FlagNames, env \in FlagEnvs,
          enabled \in BOOLEAN :
          EditBinding(b, u, name, env, enabled)
    \/ \E b \in BindingIds, u \in Users : DeleteBinding(b, u)
    \/ \E u \in Users, ids \in SUBSET BindingIds : PostSelect(u, ids)
    \/ PostMkdirConfig
    \/ PostMkdirData
    \/ PostWriteFile
    \/ PostCreate
    \/ PostStart
    \/ PostInsert

FlagSpec == Init /\ [][FlagNext]_vars

(***************************************************************************)
(* The log client (lib/datadog: DatadogClient).  A text is the sequence of *)
(* its tokens: a word (a maximal run of letters, digits, '_' and '-'), a   *)
(* time stamp, or a single other character.  No word of the model is the   *)
(* beginning of another one.                                               *)
(***************************************************************************)
\* number of log events the log service may answer with
MaxEvents == 2

\* new Date(ts).toISOString() of an event whose time stamp is a date
IsoTime == "2024-05-01T09:00:00.000Z"
\* attributes.timestamp of an event: a date, or something Date cannot parse
Timestamps == {IsoTime, "Invalid Date"}

\* the words of the logs
Words ==
    {"gemini_meet_client", "agent", "gemini_meet_speak_text", "text",
     "brave-search", "query", "weather", "send_chat", "Sent", "message", "Error",
     "calling", "tool", "Interrupted", "by", "detected", "speech", "Joined",
     "meeting", "Hello", "Bye", "Alice", "INFO", "ERROR", "info"}

\* the logger of the agent's actions
AgentLogger == <<"gemini_meet_client", ".", "agent">>

\* messages the worker logs
CallMessage == <<"brave-search", ":", " ", "query", "=", "weather">>
SentMessage ==
    AgentLogger \o <<" ", "send_chat", ":", " ", "Sent", " ", "message", ".">>
ErrorMessage ==
    AgentLogger \o <<" ", "brave-search", ":", " ", "Error", " ", "calling", " ",
                     "tool", " ", "brave-search", ":", " ", "query", "=", "weather">>
SpeakMessage(text) ==
    AgentLogger \o <<" ", "gemini_meet_speak_text", ":", " ", "text", "=", "\"",
                     text, "\"">>
InterruptedMessage ==
    SpeakMessage("Hello") \o <<" ", "Interrupted", " ", "by", " ", "detected", " ",
                               "speech">>
UserMessage(name, text) == <<name, ":", " ", "\"", text, "\"">>
TwoLineMessage == <<"Joined", " ", "meeting", ".", "\n", "weather">>
\* messages that begin with the name of a log level
LevelMessage(level) == <<level, ":", " ", "query", "=", "weather">>

\* a log event of the service (DatadogLog.attributes)
DatadogLog(timestamp, status, loggerName, message) ==
    [timestamp |-> timestamp, status |-> status, loggerName |-> loggerName,
     message |-> message]

\* the events a meeting may have logged
Events ==
    {DatadogLog(IsoTime, "INFO", AgentLogger, CallMessage),
     DatadogLog(IsoTime, "", <<>>, CallMessage),
     DatadogLog(IsoTime, "INFO", AgentLogger, SentMessage),
     DatadogLog(IsoTime, "ERROR", <<>>, ErrorMessage),
     DatadogLog(IsoTime, "INFO", <<>>, SpeakMessage("Hello")),
     DatadogLog(IsoTime, "INFO", <<>>, SpeakMessage("Bye")),
     DatadogLog(IsoTime, "INFO", <<>>, InterruptedMessage),
     DatadogLog(IsoTime, "INFO", <<>>, UserMessage("Alice", "Hello")),
     DatadogLog(IsoTime, "INFO", <<>>, UserMessage("Alice", "Bye")),
     DatadogLog(IsoTime, "INFO", <<>>, TwoLineMessage),
     DatadogLog("Invalid Date", "INFO", <<>>, CallMessage),
     DatadogLog(IsoTime, "INFO", <<>>, LevelMessage("INFO")),
     DatadogLog(IsoTime, "INFO", <<>>, LevelMessage("info")),
     DatadogLog(IsoTime, "ERROR", AgentLogger, LevelMessage("ERROR"))}

\* data.data of an answer of the service
EventLists == UNION {[1..n -> Events] : n \in 0..MaxEvents}

\* the placeholders fetchLogs returns
MissingKeys ==
    <<"Datadog API Key or Application Key is missing in environment variables.">>
\* mutant: the body of the answer (errorText), here a log line, is returned too
ErrorFetching_WithBody(status) ==
    <<"Error fetching logs from Datadog", ":", " ", status, "\n",
      IsoTime, " ", "[", "INFO", "]", " ">> \o CallMessage
ErrorFetching(status) == <<"Error fetching logs from Datadog", ":", " ", status>>
InvalidResponse == <<"No logs found or invalid response from Datadog.">>
FailedToConnect(error) == <<"Failed to connect to Datadog", ":", " ", error>>

\* the HTTP statuses of an answer that is not ok
ErrorStatuses == {"403 Forbidden", "500 Internal Server Error"}

\* msg.startsWith(loggerName)
StartsWith(s, prefix) ==
    Len(prefix) <= Len(s) /\ SubSeq(s, 1, Len(prefix)) = prefix

\* const status = log.attributes.status || 'INFO'
StatusOf(log) == IF log.status = "" THEN "INFO" ELSE log.status

\* loggerName && !msg.startsWith(loggerName) ? `${loggerName} ` : ''
PrefixOf(log) ==
    IF log.loggerName # <<>> /\ ~StartsWith(log.message, log.loggerName)
    THEN log.loggerName \o <<" ">>
    ELSE <<>>

\* `${time} [${status}] ${prefix}${msg}`
FormatLog(log) ==
    <<log.timestamp, " ", "[", StatusOf(log), "]", " ">> \o PrefixOf(log) \o log.message

\* .map(...).join('\n')
RECURSIVE JoinLogs(_)
JoinLogs(logs) ==
    IF logs = <<>> THEN <<>>
    ELSE IF Len(logs) = 1 THEN FormatLog(logs[1])
    ELSE FormatLog(logs[1]) \o <<"\n">> \o JoinLogs(Tail(logs))

\* new Date(log.attributes.timestamp).toISOString() throws a RangeError for a
\* time stamp that is no date
MapThrows(logs) == \E i \in DOMAIN logs : logs[i].timestamp # IsoTime

\* new DatadogClient(): the keys come from the environment (or from .env)
Construct(apiKey, appKey) ==
    /\ ~datadog.constructed
    /\ datadog' = [constructed |-> TRUE, apiKey |-> apiKey, appKey |-> appKey]
    /\ UNCHANGED <<fetch, details, lifecycleVars, configVars, dash>>

\* fetchLogs has returned the string logs
FetchReturn(logs) == [fetch EXCEPT !.pc = "done", !.logs = {logs}]

\* mutant: there is no try around the request
FetchCatch_Rethrows(error) == [fetch EXCEPT !.pc = "done", !.raised = TRUE]

\* catch (error) { return `Failed to connect to Datadog: ${error}` }
FetchCatch(error) == FetchReturn(FailedToConnect(error))

\* fetchLogs(meetingId, limit) up to `await fetch(url, ...)`
FetchStart ==
    /\ datadog.constructed
    /\ fetch.pc = "idle"
    /\ fetch' = IF datadog.apiKey = "" \/ datadog.appKey = ""
                THEN FetchReturn(MissingKeys)
                ELSE [fetch EXCEPT !.pc = "fetching", !.requests = @ + 1]
    /\ UNCHANGED <<datadog, details, lifecycleVars, configVars, dash>>

\* the request is answered, or fetch throws (no connection)
FetchRespond ==
    /\ fetch.pc = "fetching"
    /\ \/ fetch' = [fetch EXCEPT !.pc = "ok"]
       \/ \E status \in ErrorStatuses :
             fetch' = [fetch EXCEPT !.pc = status]
       \/ fetch' = FetchCatch("TypeError")
    /\ UNCHANGED <<datadog, details, lifecycleVars, configVars, dash>>

\* if (!response.ok) { await response.text(); return `Error fetching ...` }
FetchErrorText ==
    /\ fetch.pc \in ErrorStatuses
    /\ \/ fetch' = FetchReturn(ErrorFetching(fetch.pc))
       \/ fetch' = FetchCatch("TypeError")
    /\ UNCHANGED <<datadog, details, lifecycleVars, configVars, dash>>

\* const data = await response.json() and the rest of the try: the body is
\* no JSON, it has no data array, or it has one
FetchJson ==
    /\ fetch.pc = "ok"
    /\ \/ fetch' = FetchCatch("SyntaxError")
       \/ fetch' = FetchReturn(InvalidResponse)
       \/ \E logs \in EventLists :
             fetch' = IF MapThrows(logs)
                      THEN FetchCatch("RangeError")
                      ELSE FetchReturn(JoinLogs(logs))
    /\ UNCHANGED <<datadog, details, lifecycleVars, configVars, dash>>

(***************************************************************************)
(* getMeetingDetails: the transcript and the tool usage of a meeting, from *)
(* the lines of its logs.                                                  *)
(***************************************************************************)
\* /\d{4}-\d{2}-\d{2}T\d{2}:\d{2}:\d{2}\.\d{3}Z/
IsTimestamp(token) == token = IsoTime

\* [a-zA-Z0-9_-]+
IsToolName(token) == token \in Words

\* [a-zA-Z0-9_]+
IsArgName(token) == token \in Words \ {"brave-search"}

\* String.prototype.split('\n')
RECURSIVE SplitLines(_)
SplitLines(s) ==
    IF \E i \in DOMAIN s : s[i] = "\n"
    THEN LET i == CHOOSE i \in DOMAIN s :
                      s[i] = "\n" /\ \A k \in 1..(i - 1) : s[k] # "\n"
         IN <<SubSeq(s, 1, i - 1)>> \o SplitLines(SubSeq(s, i + 1, Len(s)))
    ELSE <<s>>

\* the first place from i on that holds no white space (Len(s) + 1: none)
RECURSIVE SkipSpaces(_, _)
SkipSpaces(s, i) ==
    IF i <= Len(s) /\ IsSpace(s[i]) THEN SkipSpaces(s, i + 1) ELSE i

\* String.prototype.trim
RECURSIVE Trim(_)
Trim(s) ==
    IF s = <<>> THEN s
    ELSE IF IsSpace(Head(s)) THEN Trim(Tail(s))
    ELSE IF IsSpace(s[Len(s)]) THEN Trim(SubSeq(s, 1, Len(s) - 1))
    ELSE s

\* the places where part occurs in s
Occurrences(s, part) ==
    {i \in 1..(Len(s) - Len(part) + 1) : SubSeq(s, i, i + Len(part) - 1) = part}

\* String.prototype.includes
Includes(s, part) == Occurrences(s, part) # {}

Least(S) == CHOOSE i \in S : \A k \in S : i <= k

\* message.split(separator)[1], for a message that includes the separator
SecondPart(s, separator) ==
    LET from == Least(Occurrences(s, separator)) + Len(separator)
        rest == SubSeq(s, from, Len(s))
    IN IF Includes(rest, separator)
       THEN SubSeq(rest, 1, Least(Occurrences(rest, separator)) - 1)
       ELSE rest

\* line.match(/^(<time stamp>)\s+\[.*?\]\s+(.*)$/): the set of the matches
\* (none or one), each with the time stamp and the message
MatchLine(line) ==
    IF /\ Len(line) >= 2
       /\ IsTimestamp(line[1])
       /\ IsSpace(line[2])
       /\ SkipSpaces(line, 2) <= Len(line)
       /\ line[SkipSpaces(line, 2)] = "["
    THEN LET open == SkipSpaces(line, 2)
             closes == {j \in (open + 1)..(Len(line) - 1) :
                           line[j] = "]" /\ IsSpace(line[j + 1])}
         IN IF closes = {} THEN {}
            ELSE {[timestamp |-> line[1],
                   message |-> SubSeq(line, SkipSpaces(line, Least(closes) + 1),
                                      Len(line))]}
    ELSE {}

\* new Date(match[1]).toLocaleTimeString([], { hour: '2-digit', ... })
ToLocaleTimeString(timestamp) == "09:00:00 AM"

\* the phrases that begin the log of a result
ResultPhrases ==
    {<<"Sent", " ", "message", ".">>, <<"Finished", " ", "speaking", ".">>,
     <<"Joined", " ", "meeting", ".">>, <<"Left", " ", "the", " ", "meeting", ".">>,
     <<"Interrupted", " ", "by", " ", "detected", " ", "speech">>,
     <<"BinaryContent", "(">>, <<"Error", " ", "calling", " ", "tool">>,
     <<"[", "error", "]">>, <<"Title", ":">>}

\* /^(Sent message\.|...|Title:)/.test(text)
IsResult(text) == \E phrase \in ResultPhrases : StartsWith(text, phrase)

\* Method A: the set of the tool names the line counts for (none or one)
MethodA(message) ==
    IF Includes(message, AgentLogger)
    THEN LET content == Trim(SecondPart(message, AgentLogger))
         IN IF Len(content) >= 2 /\ IsToolName(content[1]) /\ content[2] = ":"
            THEN IF IsResult(Trim(SubSeq(content, 3, Len(content))))
                 THEN {}
                 ELSE {content[1]}
            ELSE {}
    ELSE {}

\* the places where /(?:^|\s)([a-zA-Z0-9_-]+):\s+[a-zA-Z0-9_]+=/ matches, by
\* the place of the name
FallbackMatches(message) ==
    {i \in 1..(Len(message) - 4) :
        /\ i = 1 \/ IsSpace(message[i - 1])
        /\ IsToolName(message[i])
        /\ message[i + 1] = ":"
        /\ IsSpace(message[i + 2])
        /\ LET arg == SkipSpaces(message, i + 2)
           IN arg + 1 <= Len(message) /\ IsArgName(message[arg])
                                      /\ message[arg + 1] = "="}

\* ['INFO', 'WARNING', 'ERROR', 'DEBUG']
LevelNames == {"INFO", "WARNING", "ERROR", "DEBUG"}

\* Method B: the set of the tool names the line counts for (none or one)
MethodB(message) ==
    IF FallbackMatches(message) = {} THEN {}
    ELSE {message[Least(FallbackMatches(message))]} \ LevelNames

\* toolUsage[toolName] = (toolUsage[toolName] || 0) + 1
CountTool(toolUsage, toolName) ==
    [name \in DOMAIN toolUsage \cup {toolName} |->
        IF name = toolName
        THEN (IF name \in DOMAIN toolUsage THEN toolUsage[name] ELSE 0) + 1
        ELSE toolUsage[name]]

\* mutant: there is no toolCallFound, Method B runs on every line
ToolUsage_CountsBoth(toolUsage, message) ==
    LET afterA == IF MethodA(message) = {} THEN toolUsage
                  ELSE CountTool(toolUsage, CHOOSE name \in MethodA(message) : TRUE)
    IN IF MethodB(message) = {} THEN afterA
       ELSE CountTool(afterA, CHOOSE name \in MethodB(message) : TRUE)

\* 2. Extract Tool Usage: Method A, and Method B if A counted nothing
ToolUsage(toolUsage, message) ==
    LET found == IF MethodA(message) # {} THEN MethodA(message)
                 ELSE MethodB(message)
    IN IF found = {} THEN toolUsage
       ELSE CountTool(toolUsage, CHOOSE name \in found : TRUE)

SpeakText == <<"gemini_meet_speak_text", ":", " ", "text", "=", "\"">>
InterruptedPhrase ==
    <<"Interrupted", " ", "by", " ", "detected", " ", "speech">>

\* message.match(/gemini_meet_speak_text: text="(.*?)"/): the set of the
\* texts matched (none or one)
MatchSpeakText(message) ==
    LET starts == {i + Len(SpeakText) : i \in Occurrences(message, SpeakText)}
        closed == {i \in starts : \E q \in i..Len(message) : message[q] = "\""}
    IN IF closed = {} THEN {}
       ELSE LET from == Least(closed)
                to == Least({q \in from..Len(message) : message[q] = "\""})
            IN {SubSeq(message, from, to - 1)}

Segment(timestamp, speaker, message, type) ==
    [timestamp |-> timestamp, speaker |-> speaker, message |-> message,
     type |-> type]

\* mutant: the last segment is not looked at
PushAgent_NoDedup(transcript, timestamp, content) ==
    Append(transcript, Segment(timestamp, <<"Gemini">>, content, "agent"))

\* the deduplication and the push of an agent segment
PushAgent(transcript, timestamp, content) ==
    IF /\ transcript # <<>>
       /\ transcript[Len(transcript)].type = "agent"
       /\ transcript[Len(transcript)].message = content
    THEN transcript
    ELSE Append(transcript, Segment(timestamp, <<"Gemini">>, content, "agent"))

\* message.match(/([^:]+): "([^"]+)"$/): the set of the matches (none or
\* one), each with the name and the text
MatchUser(message) ==
    LET n == Len(message)
        quotes == {q \in 1..(n - 1) : message[q] = "\""}
    IN IF n >= 1 /\ message[n] = "\"" /\ quotes # {}
       THEN LET open == CHOOSE q \in quotes : \A k \in quotes : k <= q
                colons == {c \in 1..(open - 3) : message[c] = ":"}
                from == IF colons = {} THEN 1
                        ELSE 1 + CHOOSE c \in colons : \A k \in colons : k <= c
            IN IF /\ open >= 4
                  /\ open < n - 1
                  /\ message[open - 1] = " "
                  /\ message[open - 2] = ":"
                  /\ from <= open - 3
               THEN {[name |-> SubSeq(message, from, open - 3),
                      text |-> SubSeq(message, open + 1, n - 1)]}
               ELSE {}
       ELSE {}

\* ['gemini_meet_client', 'Spoken', 'GeminiAgent']
IgnoredSpeakers == {"gemini_meet_client", "Spoken", "GeminiAgent"}

\* ignoredSpeakers.some(s => name.startsWith(s) || name === s) ||
\* name.includes('.')
IsIgnored(name) ==
    \/ name # <<>> /\ name[1] \in IgnoredSpeakers
    \/ \E i \in DOMAIN name : name[i] = "."

\* User Speech
PushUser(transcript, timestamp, message) ==
    IF MatchUser(message) # {} /\ ~Includes(message, <<"gemini_meet_speak_text">>)
    THEN LET m == CHOOSE m \in MatchUser(message) : TRUE
         IN IF IsIgnored(Trim(m.name)) THEN transcript
            ELSE Append(transcript, Segment(timestamp, Trim(m.name), m.text, "user"))
    ELSE transcript

\* 3. Extract Transcript
Transcript(transcript, timestamp, message) ==
    IF Includes(message, SpeakText)
    THEN IF Includes(message, InterruptedPhrase) THEN transcript
         ELSE IF MatchSpeakText(message) # {}
              THEN PushAgent(transcript, timestamp,
                             CHOOSE text \in MatchSpeakText(message) : TRUE)
              ELSE PushUser(transcript, timestamp, message)
    ELSE PushUser(transcript, timestamp, message)

\* const logs = await this.fetchLogs(meetingId, 2000); logs.split('\n')
DetailsSplit ==
    /\ details.pc = "idle"
    /\ fetch.pc = "done"
    /\ \E logs \in fetch.logs :
          details' = [details EXCEPT !.pc = "lines", !.lines = SplitLines(logs)]
    /\ UNCHANGED <<datadog, fetch, lifecycleVars, configVars, dash>>

\* mutant: a line that does not match ends the loop
DetailsLine_AbortsOnMalformed ==
    /\ details.pc = "lines"
    /\ details.lines # <<>>
    /\ LET line == Head(details.lines)
       IN details' =
             IF MatchLine(line) = {}
             THEN [details EXCEPT !.lines = <<>>]
             ELSE LET match == CHOOSE m \in MatchLine(line) : TRUE
                  IN [details EXCEPT
                         !.lines = Tail(@),
                         !.toolUsage = ToolUsage(@, match.message),
                         !.transcript =
                             Transcript(@, ToLocaleTimeString(match.timestamp),
                                        match.message)]
    /\ UNCHANGED <<datadog, fetch, lifecycleVars, configVars, dash>>

\* lines.forEach(line => { ... }): one line
DetailsLine ==
    /\ details.pc = "lines"
    /\ details.lines # <<>>
    /\ LET line == Head(details.lines)
       IN details' =
             IF MatchLine(line) = {}
             THEN [details EXCEPT !.lines = Tail(@)]
             ELSE LET match == CHOOSE m \in MatchLine(line) : TRUE
                  IN [details EXCEPT
                         !.lines = Tail(@),
                         !.toolUsage = ToolUsage(@, match.message),
                         !.transcript =
                             Transcript(@, ToLocaleTimeString(match.timestamp),
                                        match.message)]
    /\ UNCHANGED <<datadog, fetch, lifecycleVars, configVars, dash>>

\* return { transcript, toolUsage }
DetailsReturn ==
    /\ details.pc = "lines"
    /\ details.lines = <<>>
    /\ details' = [details EXCEPT !.pc = "done"]
    /\ UNCHANGED <<datadog, fetch, lifecycleVars, configVars, dash>>

LogNext ==
    \/ \E apiKey, appKey \in {"", "key"} : Construct(apiKey, appKey)
    \/ FetchStart
    \/ FetchRespond
    \/ FetchErrorText
    \/ FetchJson
    \/ DetailsSplit
    \/ DetailsLine
    \/ DetailsReturn

LogSpec == Init /\ [][LogNext]_vars

(***************************************************************************)
(* The dashboard page (components/meeting-dashboard.tsx): the list of the  *)
(* user's meetings, filtered by status, sorted and cut into pages.         *)
(***************************************************************************)
RECURSIVE Sum(_, _)
Sum(f, S) ==
    IF S = {} THEN 0
    ELSE LET x == CHOOSE x \in S : TRUE IN f[x] + Sum(f, S \ {x})

\* filteredMeetings.length
FilteredLength(d) ==
    IF d.statusFilter = "all" THEN Sum(d.meetings, Statuses)
    ELSE d.meetings[d.statusFilter]

\* Math.ceil(filteredMeetings.length / ITEMS_PER_PAGE)
TotalPages(d) == (FilteredLength(d) + ITEMS_PER_PAGE - 1) \div ITEMS_PER_PAGE

Min(a, b) == IF a <= b THEN a ELSE b
Max(a, b) == IF a >= b THEN a ELSE b

\* filteredMeetings.slice((currentPage - 1) * ITEMS_PER_PAGE,
\*                        currentPage * ITEMS_PER_PAGE).length
PaginatedLength(d) ==
    Max(0, Min(FilteredLength(d), d.currentPage * ITEMS_PER_PAGE)
              - (d.currentPage - 1) * ITEMS_PER_PAGE)

\* the pagination controls are rendered
ControlsShown(d) ==
    ~d.loading /\ FilteredLength(d) # 0 /\ TotalPages(d) > 1

\* what GET /api/meetings may answer after it answered list: the same rows,
\* one more running meeting, or one running meeting finished
Answers(list) ==
    {list}
        \cup {[list EXCEPT !["running"] = @ + 1] :
                  x \in {y \in {1} : Sum(list, Statuses) < MaxMeetings}}
        \cup {[list EXCEPT !["running"] = @ - 1, ![status] = @ + 1] :
                  status \in {s \in Statuses \ {"running"} : list["running"] > 0}}

\* fetchMeetings, when it is mounted and every 5 seconds: setMeetings(data)
FetchMeetings(data) ==
    /\ dash' = [dash EXCEPT !.meetings = data, !.loading = FALSE]
    /\ UNCHANGED <<lifecycleVars, configVars, logVars>>

\* the answer is not ok, or fetch throws: only finally { setLoading(false) }
FetchMeetingsFails ==
    /\ dash' = [dash EXCEPT !.loading = FALSE]
    /\ UNCHANGED <<lifecycleVars, configVars, logVars>>

\* onValueChange={(val) => { setStatusFilter(val); setCurrentPage(1); }}
SetStatusFilter(val) ==
    /\ dash' = [dash EXCEPT !.statusFilter = val, !.currentPage = 1]
    /\ UNCHANGED <<lifecycleVars, configVars, logVars>>

\* setSortOrder(prev => prev === 'desc' ? 'asc' : 'desc')
ToggleSort ==
    /\ dash' = [dash EXCEPT !.sortOrder = IF @ = "desc" THEN "asc" ELSE "desc"]
    /\ UNCHANGED <<lifecycleVars, configVars, logVars>>

\* the button to the previous page: setCurrentPage(p => Math.max(1, p - 1))
PreviousPage ==
    /\ ControlsShown(dash)
    /\ dash.currentPage # 1
    /\ dash' = [dash EXCEPT !.currentPage = Max(1, @ - 1)]
    /\ UNCHANGED <<lifecycleVars, configVars, logVars>>

\* the button to the next page:
\* setCurrentPage(p => Math.min(totalPages, p + 1))
NextPage ==
    /\ ControlsShown(dash)
    /\ dash.currentPage # TotalPages(dash)
    /\ dash' = [dash EXCEPT !.currentPage = Min(TotalPages(dash), @ + 1)]
    /\ UNCHANGED <<lifecycleVars, configVars, logVars>>

DashNext ==
    \/ \E data \in Answers(dash.meetings) : FetchMeetings(data)
    \/ FetchMeetingsFails
    \/ \E val \in Statuses \cup {"all"} : SetStatusFilter(val)
    \/ ToggleSort
    \/ PreviousPage
    \/ NextPage

DashSpec == Init /\ [][DashNext]_vars

(***************************************************************************)
(* Properties.                                                             *)
(***************************************************************************)
\* no list poll is in flight
NoPollInFlight == \A h \in Pollers : poll[h].pc = "idle"

\* C1: when the poll's inspection answers and reports the container as not
\* running, the update it then makes sets the status to completed for exit
\* code 0 and to failed for any other exit code.
C1_ExitCodeDecidesStatus ==
    [][\A h \in Pollers :
          (PollUpdate(h) /\ ~poll[h].caught) =>
              LET j == poll[h].cur
              IN /\ cont[j].state = "exited" => poll[h].exitCode = cont[j].exitCode
                 /\ poll[h].exitCode = 0 => db'[j].status = "completed"
                 /\ poll[h].exitCode # 0 => db'[j].status = "failed"]_vars

\* a meeting has been reconciled to failed from a container that exited with 1
C1_Witness ==
    \E j \in Rows :
        /\ db[j].status = "failed"
        /\ cont[j] = [state |-> "exited", exitCode |-> 1]

\* C2: when the poll's inspection throws, the update it then makes sets the
\* status to stopped.
C2_InspectFailureGivesStopped ==
    [][\A h \in Pollers :
          (PollUpdate(h) /\ poll[h].caught) =>
              db'[poll[h].cur].status = "stopped"]_vars

\* C3: once a stop that was requested while the meeting was running has
\* returned and no poll is in flight any more, the status is stopped.
C3_StopWins ==
    \A s \in Stoppers :
        (/\ stop[s].pc = "idle"
         /\ stop[s].res = "success"
         /\ stop[s].wasRunning
         /\ NoPollInFlight)
        => db[stop[s].id].status = "stopped"

\* C4: the update of a stop leaves a status of completed or failed as it is.
C4_StopKeepsNaturalExit ==
    [][\A s \in Stoppers :
          (StopUpdate(s) /\ db[stop[s].id].status \in {"completed", "failed"}) =>
              db'[stop[s].id].status = db[stop[s].id].status]_vars

\* C5: endedAt is set if and only if the status is terminal.
C5_EndedAtIffTerminal ==
    \A j \in Rows : (db[j].endedAt # NULL) <=> (db[j].status \in Terminal)

\* C6: a meeting whose status is completed, failed or stopped keeps its row
\* and never has status running again.
C6_StatusMonotonic ==
    [][\A j \in Rows :
          db[j].status \in Terminal =>
              db'[j] # NoRow /\ db'[j].status # "running"]_vars

\* a meeting that the reconciler finished has been written again (by a stop
\* or a report) and is still terminal
C6_Witness ==
    \E j \in Rows : db[j].status = "stopped" /\ db[j].endedAt # NULL

\* C7: a list poll invoked when a meeting is already terminal does not select
\* it; the meetings a poll still has to look at only ever come from its
\* selection; and a step of a poll changes a row only when it is the update
\* of the meeting it has just inspected.  So a poll never changes the status
\* or the end timestamp of a meeting that was terminal when it was invoked.
C7_ReconcileIdempotent ==
    [][\A h \in Pollers :
          poll'[h] # poll[h] =>
              /\ poll[h].pc = "idle" =>
                     \A j \in Rows :
                         db[j].status \in Terminal => j \notin poll'[h].todo
              /\ poll[h].pc # "idle" =>
                     /\ poll'[h].todo \subseteq poll[h].todo
                     /\ poll'[h].cur \in poll[h].todo \cup {NULL}
              /\ \A j \in Jobs :
                     db'[j] # db[j] => poll[h].pc = "inspected" /\ poll[h].cur = j]_vars

\* a poll was invoked on a terminal meeting: it is in its loop with nothing
\* selected while a meeting that it cannot have finished is terminal
C7_Witness ==
    \E h \in Pollers, j \in Rows :
        /\ poll[h].pc = "loop"
        /\ poll[h].todo = {}
        /\ db[j].status = "stopped"
        /\ db[j].endedAt = NULL

\* C8: the update of a poll changes neither the status nor the end timestamp
\* of a meeting that another poll has already finished.
C8_LaterReconcileIsNoOp ==
    [][\A h \in Pollers :
          (/\ PollUpdate(h)
           /\ db[poll[h].cur].status \in {"completed", "failed"}
           /\ db[poll[h].cur].endedAt # NULL) =>
              db'[poll[h].cur] = db[poll[h].cur]]_vars

\* C9 as claimed: a status leaves running only by the update of a poll or of a
\* stop, and no row is deleted.
C9_OnlyReconcilerOrStop ==
    [][\A j \in Rows :
          /\ db'[j] # NoRow
          /\ db'[j].status # db[j].status =>
                 \/ \E h \in Pollers : PollUpdate(h) /\ poll[h].cur = j
                 \/ \E s \in Stoppers : StopUpdate(s) /\ stop[s].id = j]_vars

\* C9 as amended: a status changes only by the update of a poll, by the update
\* of a stop or by the worker's report, and no row is deleted.
C9_OnlyReconcilerStopOrReport ==
    [][\A j \in Rows :
          /\ db'[j] # NoRow
          /\ db'[j].status # db[j].status =>
                 \/ \E h \in Pollers : PollUpdate(h) /\ poll[h].cur = j
                 \/ \E s \in Stoppers : StopUpdate(s) /\ stop[s].id = j
                 \/ Report(j)]_vars

\* a meeting was marked stopped although no stop was ever requested and the
\* reconciler never writes stopped: the worker's report did it
C9_Witness ==
    \E j \in Rows :
        /\ db[j].status = "stopped"
        /\ \A s \in Stoppers : stop[s].id = NULL

\* C10: a row exists only for a spawn whose container was created and
\* started, it carries that container's reference, and the spawn answered
\* success; a spawn whose create or start failed has answered with the spawn
\* error and has no row.
C10_RowOnlyAfterStart ==
    \A j \in Jobs :
        /\ db[j] # NoRow =>
               /\ cont[j].state \in {"running", "exited", "removed"}
               /\ db[j].containerId = j
               /\ sp[j].pc = "done" /\ sp[j].res = SpawnSuccess
        /\ (sp[j].pc = "done" /\ cont[j].state \in {"none", "created"}) =>
               db[j] = NoRow /\ sp[j].res = SpawnError

\* a spawn has returned after its container was created but failed to start
C10_Witness ==
    \E j \in Jobs :
        /\ sp[j].pc = "done"
        /\ cont[j].state = "created"
        /\ sp[j].res = SpawnError

\* C11: no container is created and no row is inserted while the request's
\* configuration document has not been written; and a request that has
\* returned without the document written (a mkdir or the writeFile threw) has
\* answered with the spawn error.
C11_SandboxFailureAborts ==
    /\ sandbox.file = {} => docker = "none" /\ meeting = NoRow
    /\ (post.pc = "done" /\ sandbox.file = {}) => post.res = SpawnError

\* the request has returned after both directories were made and the write of
\* the document failed
C11_Witness ==
    /\ post.pc = "done"
    /\ sandbox.configDir /\ sandbox.dataDir
    /\ sandbox.file = {}
    /\ post.res = SpawnError

\* C12: a stop for a meeting that has a row goes on to its update whatever
\* the state of the container (running, exited, removed) and whether or not
\* container.stop() throws, and the update answers success; the only error a
\* stop for an existing meeting can answer is that of a failed database query.
C12_StopTolerant ==
    [][\A s \in Stoppers :
          stop'[s] # stop[s] =>
              /\ (stop[s].pc = "idle" /\ db[stop'[s].id] # NoRow) =>
                     stop'[s].pc = "selected"
              /\ stop[s].pc = "selected" => stop'[s].pc = "stopping"
              /\ stop[s].pc = "stopping" =>
                     \/ stop'[s].res = "success" /\ db'[stop[s].id].status = "stopped"
                     \/ StopFail(s)]_vars

\* a stop requested for a meeting no longer recorded as running has answered
\* success, the meeting is recorded as stopped and its container is gone from
\* the runtime
C12_Witness ==
    \E s \in Stoppers :
        /\ stop[s].pc = "idle"
        /\ stop[s].id # NULL
        /\ ~stop[s].wasRunning
        /\ stop[s].res = "success"
        /\ cont[stop[s].id].state = "removed"
        /\ db[stop[s].id].status = "stopped"
        /\ db[stop[s].id].endedAt = NULL

\* C16: a meeting that is recorded as running while its container is not
\* running (it has exited or was removed) is eventually recorded with a
\* terminal status.
C16_NeverStuckRunning ==
    \A j \in Jobs :
        (db[j].status = "running" /\ cont[j].state # "running")
            ~> (db[j].status \in Terminal)

\* a poll has finished a meeting whose container was removed
C16_Witness ==
    \E j \in Rows :
        /\ cont[j].state = "removed"
        /\ db[j].status \in {"completed", "failed"}
        /\ db[j].endedAt # NULL

\* the rows of mcp_configs a request of user u for the bindings ids gets
Requested(u, ids) ==
    {b \in ids : mcpConfigs[b] # NoRow /\ mcpConfigs[b].userId = u}

\* the environment map has at least one empty-string value
SomeValueEmpty(env) == \E key \in {kv[1] : kv \in env} : <<key, "">> \in env

\* no entry of the document carries an environment map with an empty value
NoEmptyValue(servers) ==
    \A k \in DOMAIN servers :
        \A field \in servers[k] : ~SomeValueEmpty(field[2])

\* C13: when the document is built, it has no entry made from a requested
\* binding whose environment map has an empty value, and each of its entries
\* is made from a requested binding without one, under that binding's
\* normalized name; the document written to the sandbox and the one stored on
\* the row are the document built, so none of them has an entry with an empty
\* value.
C13_EmptyEnvExcluded ==
    /\ [](/\ NoEmptyValue(post.mcpServers)
          /\ \A file \in sandbox.file : NoEmptyValue(file)
          /\ meeting # NoRow => NoEmptyValue(meeting.config)
          /\ post.pc \in {"written", "created", "started"} =>
                 sandbox.file = {post.mcpServers})
    /\ [][/\ \A u \in Users, ids \in SUBSET BindingIds :
               PostSelect(u, ids) =>
                   LET servers == post'.mcpServers
                   IN /\ \A b \in Requested(u, ids) :
                             SomeValueEmpty(mcpConfigs[b].env) =>
                                 \A k \in DOMAIN servers :
                                     servers[k] # ServerEntry(mcpConfigs[b])
                      /\ \A k \in DOMAIN servers :
                             \E b \in Requested(u, ids) :
                                 /\ ~SomeValueEmpty(mcpConfigs[b].env)
                                 /\ k = ServerName(mcpConfigs[b].name)
                                 /\ servers[k] = ServerEntry(mcpConfigs[b])
         /\ PostInsert /\ meeting' # NoRow =>
                meeting'.config = post.mcpServers /\ sandbox.file = {meeting'.config}]_vars

\* a document of one entry has been built and written for a request that
\* asked for two bindings of its user, one of which has an empty value
C13_Witness ==
    /\ post.pc = "written"
    /\ post.mcpConfigIds = BindingIds
    /\ Requested(post.userId, BindingIds) = BindingIds
    /\ \E b, c \in BindingIds :
           /\ SomeValueEmpty(mcpConfigs[b].env)
           /\ DOMAIN post.mcpServers = {ServerName(mcpConfigs[c].name)}
           /\ post.mcpServers[ServerName(mcpConfigs[c].name)] =
                  {<<"env", mcpConfigs[c].env>>}
    /\ sandbox.file = {post.mcpServers}

\* C14: when the document is built, the number of its entries is the number
\* of requested bindings whose environment maps have no empty value.
C14_EveryEligibleListed ==
    [][\A u \in Users, ids \in SUBSET BindingIds :
          PostSelect(u, ids) =>
              Cardinality(DOMAIN post'.mcpServers) =
                  Cardinality({b \in Requested(u, ids) :
                                  ~SomeValueEmpty(mcpConfigs[b].env)})]_vars

\* C15: once the row of a meeting exists, no step deletes it or changes its
\* config.
C15_SnapshotImmutable ==
    [][meeting # NoRow =>
          meeting' # NoRow /\ meeting'.config = meeting.config]_vars

\* a meeting started with a binding in its config has been finished and
\* written again by a stop or a report, and its bindings have been deleted
C15_Witness ==
    /\ meeting # NoRow
    /\ meeting.config # NoServers
    /\ meeting.status = "stopped"
    /\ meeting.endedAt # NULL
    /\ \A b \in BindingIds : mcpConfigs[b] = NoRow

\* the strings fetchLogs returns in place of logs
Placeholders ==
    {MissingKeys, InvalidResponse}
        \cup {ErrorFetching(status) : status \in ErrorStatuses}
        \cup {FailedToConnect(error) : error \in {"TypeError", "SyntaxError", "RangeError"}}

\* C17: fetchLogs never throws and, once it has returned, has returned one
\* string; with a key missing it sends no request and returns the placeholder
\* for missing keys; and when the request throws, the answer is not ok, or
\* reading the body throws, the string returned is a placeholder.
C17_FetchNeverRaises ==
    /\ [](/\ ~fetch.raised
          /\ fetch.pc = "done" => Cardinality(fetch.logs) = 1
          /\ (datadog.apiKey = "" \/ datadog.appKey = "") =>
                 /\ fetch.requests = 0
                 /\ fetch.pc \in {"idle", "done"}
                 /\ fetch.pc = "done" => fetch.logs = {MissingKeys})
    /\ [][fetch' # fetch =>
             /\ fetch.pc \in ErrorStatuses =>
                    fetch'.pc = "done" /\ fetch'.logs \subseteq Placeholders
             /\ (fetch.pc = "fetching" /\ fetch'.pc = "done") =>
                    fetch'.logs \subseteq Placeholders
             /\ fetch'.requests # fetch.requests =>
                    datadog.apiKey # "" /\ datadog.appKey # ""]_vars

\* the request was sent and the answer could not be turned into lines: the
\* placeholder of the catch was returned
C17_Witness ==
    /\ fetch.pc = "done"
    /\ fetch.requests = 1
    /\ fetch.logs = {FailedToConnect("RangeError")}

\* the texts (none or one) a formatted line says the agent spoke: the line
\* ends with gemini_meet_speak_text: text="<text>"
SpokenText(line) ==
    {text \in {"Hello", "Bye"} :
        /\ Len(line) >= 9
        /\ line[1] = IsoTime
        /\ SubSeq(line, Len(line) - 7, Len(line)) =
               <<"gemini_meet_speak_text", ":", " ", "text", "=", "\"", text, "\"">>}

\* C18: when a line that says the agent spoke a text is looked at, the
\* transcript stays as it is if its last segment is an agent segment with
\* that text, and otherwise gets one new agent segment with that text.
C18_AgentDedup ==
    [][DetailsLine =>
          \A text \in SpokenText(Head(details.lines)) :
              LET before == details.transcript
                  after == details'.transcript
              IN IF /\ before # <<>>
                    /\ before[Len(before)].type = "agent"
                    /\ before[Len(before)].message = <<text>>
                 THEN after = before
                 ELSE /\ Len(after) = Len(before) + 1
                      /\ SubSeq(after, 1, Len(before)) = before
                      /\ after[Len(after)].type = "agent"
                      /\ after[Len(after)].speaker = <<"Gemini">>
                      /\ after[Len(after)].message = <<text>>]_vars

\* the logs were two lines saying the agent spoke "Hello", and the transcript
\* extracted from them has one segment
C18_Witness ==
    /\ details.pc = "done"
    /\ \E logs \in fetch.logs :
           /\ Len(SplitLines(logs)) = 2
           /\ \A i \in 1..2 : SpokenText(SplitLines(logs)[i]) = {"Hello"}
    /\ Len(details.transcript) = 1
    /\ details.transcript[1].type = "agent"

\* C19: no two consecutive segments of the transcript have the same speaker
\* and the same text.
C19_NoConsecutiveDuplicates ==
    \A i \in 1..(Len(details.transcript) - 1) :
        ~(/\ details.transcript[i].speaker = details.transcript[i + 1].speaker
          /\ details.transcript[i].message = details.transcript[i + 1].message)

\* the line's message is the agent's logger, a tool name, a colon and a text
\* that begins with a result phrase
IsResultLine(line) ==
    \E k \in DOMAIN line, phrase \in ResultPhrases :
        /\ line[1] = IsoTime
        /\ k + 8 + Len(phrase) <= Len(line)
        /\ SubSeq(line, k, k + 1) = <<"]", " ">>
        /\ SubSeq(line, k + 2, k + 4) = AgentLogger
        /\ line[k + 5] = " "
        /\ IsToolName(line[k + 6])
        /\ line[k + 7] = ":"
        /\ line[k + 8] = " "
        /\ SubSeq(line, k + 9, k + 8 + Len(phrase)) = phrase

\* C20: looking at a line that logs a result changes no tool's count.
C20_ResultNotCounted ==
    [][(DetailsLine /\ IsResultLine(Head(details.lines))) =>
          details'.toolUsage = details.toolUsage]_vars

\* toolUsage[name] || 0
CountOf(toolUsage, name) ==
    IF name \in DOMAIN toolUsage THEN toolUsage[name] ELSE 0

\* the names whose count differs between two tool-usage maps
Changed(old, new) ==
    {name \in DOMAIN old \cup DOMAIN new : CountOf(old, name) # CountOf(new, name)}

ResultOf(d) == [transcript |-> d.transcript, toolUsage |-> d.toolUsage]

\* the results of the loop over lines, begun with the results in result
RECURSIVE Extraction(_, _)
Extraction(lines, result) ==
    IF lines = <<>> THEN result
    ELSE IF MatchLine(Head(lines)) = {} THEN Extraction(Tail(lines), result)
    ELSE LET m == CHOOSE m \in MatchLine(Head(lines)) : TRUE
         IN Extraction(Tail(lines),
                [transcript |-> Transcript(result.transcript,
                                           ToLocaleTimeString(m.timestamp),
                                           m.message),
                 toolUsage |-> ToolUsage(result.toolUsage, m.message)])

\* lines without its i-th line
WithoutLine(lines, i) ==
    SubSeq(lines, 1, i - 1) \o SubSeq(lines, i + 1, Len(lines))

\* C22: a line that does not have the shape `<time stamp> [<level>] <message>`
\* adds no segment and no count and the loop goes on with the next line; the
\* results returned for logs with such a line are the results for the same
\* logs without it.
C22_MalformedLineSkipped ==
    /\ [](details.pc = "done" =>
            \A logs \in fetch.logs :
               LET lines == SplitLines(logs)
               IN \A i \in DOMAIN lines :
                     MatchLine(lines[i]) = {} =>
                        ResultOf(details) =
                           Extraction(WithoutLine(lines, i), ResultOf(IdleDetails)))
    /\ [][(/\ details.pc = "lines"
           /\ details.lines # <<>>
           /\ MatchLine(Head(details.lines)) = {}) =>
              /\ ResultOf(details') = ResultOf(details)
              /\ details'.pc = "lines"
              /\ details'.lines = Tail(details.lines)]_vars

\* the extraction has returned for logs with a malformed line followed by a
\* line that counts a tool, and the tool is counted
C22_Witness ==
    /\ details.pc = "done"
    /\ details.toolUsage # IdleDetails.toolUsage
    /\ \E logs \in fetch.logs :
          LET lines == SplitLines(logs)
          IN \E i, k \in DOMAIN lines :
                /\ i < k
                /\ MatchLine(lines[i]) = {}
                /\ Extraction(SubSeq(lines, 1, k - 1), ResultOf(IdleDetails)).toolUsage
                      = IdleDetails.toolUsage
                /\ \E m \in MatchLine(lines[k]) : MethodB(m.message) # {}
\* the level tokens, as the logging library writes them and in lower case
ReservedLevels ==
    {"INFO", "WARNING", "ERROR", "DEBUG", "info", "warning", "error", "debug"}

\* the name of the first `name: key=` fragment of a message that has one
FirstFragment(message) == message[Least(FallbackMatches(message))]

\* C24: on every line looked at, a tool counted by Method A is the only one
\* counted (Method B does not run); when Method A counts nothing, the name of
\* the first `name: key=` fragment is counted unless it is a level token; and
\* no level token (info, warning, error, debug) is ever counted as a tool.
C24_FallbackSkipsLevels ==
    [][(details.pc = "lines" /\ details.lines # <<>>) =>
          LET old == details.toolUsage
              new == details'.toolUsage
          IN \A m \in MatchLine(Head(details.lines)) :
                /\ MethodA(m.message) # {} => Changed(old, new) = MethodA(m.message)
                /\ (/\ MethodA(m.message) = {}
                    /\ FallbackMatches(m.message) # {}
                    /\ FirstFragment(m.message) \notin ReservedLevels) =>
                       Changed(old, new) = {FirstFragment(m.message)}
                /\ Changed(old, new) \cap ReservedLevels = {}]_vars
\* C25: when fetchLogs has returned a placeholder (keys missing, answer not
\* ok, invalid answer, no connection) or the empty string, getMeetingDetails
\* finds nothing in it: at every step of the extraction, and when it returns,
\* the transcript and the tool usage are empty.
C25_PlaceholderGivesNothing ==
    (/\ fetch.pc = "done"
     /\ fetch.logs \subseteq Placeholders \cup {<<>>}) =>
        /\ details.transcript = <<>>
        /\ DOMAIN details.toolUsage = {}

\* the extraction has returned for the placeholder of an answer that was not
\* ok
C25_Witness ==
    /\ details.pc = "done"
    /\ fetch.logs = {ErrorFetching("500 Internal Server Error")}
    /\ details.transcript = <<>>
    /\ DOMAIN details.toolUsage = {}
\* C27: once a spawn has returned, with success or with an error, a container
\* it started has a row in meetings that refers to it.
C27_StartedContainerHasRow ==
    \A j \in Jobs :
       (sp[j].pc = "done" /\ cont[j].state \in {"running", "exited", "removed"}) =>
          db[j] # NoRow /\ db[j].containerId = j

\* C28: when a stop request answers success and the row is written as
\* stopped, the container the row refers to is not running.
C28_StoppedMeansNotRunning ==
    [][\A s \in Stoppers :
          (/\ stop[s].pc = "stopping"
           /\ stop'[s].res = "success"
           /\ db'[stop[s].id] # NoRow
           /\ db'[stop[s].id].status = "stopped"
           /\ stop[s].containerId # NULL) =>
              cont'[stop[s].containerId].state # "running"]_vars
\* C26: a stop request goes on to the container and to the row only when its
\* cookie is the session of the user who created the meeting; any other
\* request is answered at once and changes nothing (no later step of the
\* handler looks at who asked).
C26_StopOnlyByOwner ==
    [][\A s \in Stoppers, j \in FrameJobs, cookie \in Cookies :
          (/\ StopRequest(s, j, cookie)
           /\ db[j] # NoRow
           /\ cookie # db[j].createdBy) =>
              /\ stop'[s].pc = "idle"
              /\ stop'[s].res \notin {"none", "success"}]_vars
\* the meetings a list poll still has to look at or is looking at
InHand(p) == p.todo \cup ({p.cur} \ {NULL})

\* C23: a step of a list poll changes no row but the one it has inspected and
\* no container; a step of a stop request changes no row but the one of its
\* id and no container but the one of that row; the rows a poll of user u takes
\* in hand are rows created by u, it takes no others in hand later, and created_by
\* and container_id of a row never change.
C23_OtherJobsUnchanged ==
    [][/\ \A h \in Pollers :
             poll'[h] # poll[h] =>
                /\ \A B \in FrameJobs : B # poll[h].cur => db'[B] = db[B]
                /\ cont' = cont
                /\ poll[h].pc # "idle" => InHand(poll'[h]) \subseteq InHand(poll[h])
       /\ \A h \in Pollers, u \in Users :
             PollSelect(h, u) =>
                \A j \in InHand(poll'[h]) : db[j] # NoRow /\ db[j].createdBy = u
       /\ \A s \in Stoppers :
             stop'[s] # stop[s] =>
                /\ \A B \in FrameJobs : B # stop[s].id => db'[B] = db[B]
                /\ \A B \in FrameJobs : B # stop[s].containerId => cont'[B] = cont[B]
       /\ \A B \in FrameJobs :
             db[B] # NoRow =>
                /\ db'[B] # NoRow
                /\ db'[B].createdBy = db[B].createdBy
                /\ db'[B].containerId = db[B].containerId]_vars

\* alice's meeting 1 has been reconciled to completed while bob's meeting 2 is
\* recorded as running, with its container running
C23_Witness ==
    /\ db[1] # NoRow /\ db[1].status = "completed" /\ db[1].createdBy = "alice"
    /\ 2 \in DOMAIN db
    /\ db[2] # NoRow /\ db[2].status = "running" /\ db[2].createdBy = "bob"
    /\ cont[2].state = "running"
\* C29: when the document is built, none of its entries is made from a
\* requested binding whose enabled flag is false: every entry is the entry of
\* a requested binding that is enabled.
C29_DisabledExcluded ==
    [][\A u \in Users, ids \in SUBSET BindingIds :
          PostSelect(u, ids) =>
              \A k \in DOMAIN post'.mcpServers :
                  \E b \in Requested(u, ids) :
                      /\ mcpConfigs[b].enabled
                      /\ k = ServerName(mcpConfigs[b].name)
                      /\ post'.mcpServers[k] = ServerEntry(mcpConfigs[b])]_vars
\* C30: the current page of the dashboard is one of the pages 1 to
\* max(1, totalPages), so when the filtered list is not empty the page shown
\* has rows.
C30_PageInRange ==
    /\ dash.currentPage \in 1..Max(1, TotalPages(dash))
    /\ FilteredLength(dash) # 0 => PaginatedLength(dash) # 0
====
